---- MODULE Spec2Model ----
(***************************************************************************)
(* Model of the delayed-retry task scheduler (internal/scheduler), of the  *)
(* PriorityQueue it uses as its delayed queue, of the sliding-window rate  *)
(* limiters (the store-side Lua script and the in-memory limiter) and of   *)
(* the token resolution cache (internal/cache, the tokens model and the    *)
(* token service).                                                         *)
(*                                                                         *)
(* The specifications of the module:                                       *)
(*   Spec        the scheduler: handlers submit tasks, workers run         *)
(*               processTask, the delay poller runs processDelayedTasks;   *)
(*   HeapSpec    the PriorityQueue methods Push/Pop/Peek applied to *Task  *)
(*               values, as the scheduler calls them (directly, not        *)
(*               through container/heap);                                  *)
(*   RateSpec    the sliding-window script and RateLimiter.Allow;          *)
(*   TokenSpec   logins, token rows, and the resolution of bearer strings  *)
(*               through the cache and the database;                       *)
(*   LogoutSpec  TokenSpec with RedisClient.DeleteToken;                   *)
(*   BlockSpec   the ingress channel filling up (FairBlockSpec with the    *)
(*               scheduling of the goroutines);                            *)
(*   ApiSpec     the scheduler with Submit called with any Task value;     *)
(*   PollSpec    the delay poller on a delayed queue filled through Push;  *)
(*   LockSpec    the scheduler with the poller's critical section and the  *)
(*               worker's Push as separate steps.                          *)
(*                                                                         *)
(* Time in Spec and HeapSpec is counted in minutes, time in RateSpec in    *)
(* milliseconds, time in TokenSpec in ticks of which the cache TTL is      *)
(* CacheTtl and the life of an authentication token AuthTtl. The zero      *)
(* time.Time is 0; the scheduler's clock starts at 1.                      *)
(***************************************************************************)
EXTENDS Integers, Sequences, FiniteSets, TLC

VARIABLES
    now,            \* time.Now(), in minutes
    started,        \* Scheduler.Start has run
    crashed,        \* an unrecovered panic has ended the process
    TaskChannel,    \* Scheduler.TaskChannel, a buffered channel of Task values
    cur,            \* per worker: the task received from the channel, or NoTask
    DelayedQueue,   \* *Scheduler.DelayedQueue, the slice behind the PriorityQueue
    DeadQueue,      \* Scheduler.DeadQueue of the Scheduler that was started
    deadCopy,       \* per worker: s.DeadQueue of the receiver copy of its last processTask call
    nSubmitted,     \* number of tasks the handlers have created
    attempts,       \* per task: number of Mailer.Send calls made for it
    sends,          \* log of Mailer.Send calls: task as received, time, outcome
    pushed,         \* log of tasks that DelayedQueue.Push has stored
    promoted,       \* log of tasks the delay poller has moved to the channel
    lastPop,        \* HeapSpec: what the last Pop returned, and the queue it was called on
    lastPeek,       \* HeapSpec: what the last Peek returned, and the queue it was called on
    rnow,           \* RateSpec: the clock (redis TIME, time.Now()), in milliseconds
    zset,           \* RateSpec: per key, the sorted set KEYS[1]: members with their scores
    seqCtr,         \* RateSpec: per key, the counter KEYS[1]:seq (0 when the key is absent)
    zExpire,        \* RateSpec: per key, when the sorted set expires (NoExpiry when no TTL)
    seqExpire,      \* RateSpec: per key, when the counter expires (NoExpiry when no TTL)
    requests,       \* RateSpec: RateLimiter.requests, per key the kept timestamps
    admits,         \* RateSpec: per key, the calls the script admitted
    memAdmits,      \* RateSpec: per key, the times at which RateLimiter.Allow admitted
    noAdmitBefore,  \* RateSpec: per key, the latest now + r over the script's denials
    lastCall,       \* RateSpec: per key, the last call and what both limiters answered
    tnow,           \* TokenSpec: the clock, in ticks of the token cache
    tokens,         \* TokenSpec: the rows of the tokens table
    cache,          \* TokenSpec: per plaintext, the redis key token:<plaintext>
    issued,         \* TokenSpec: number of plaintexts rand.Text() has handed out
    committed,      \* TokenSpec: the plaintexts whose row an INSERT has committed
    invalidated,    \* TokenSpec: the plaintexts DeleteToken has been called for
    revokedAt,      \* TokenSpec: per plaintext, when its row stopped being valid
    lastNew,        \* TokenSpec: what tokenModel.New did, when the last step called it
    lastResolve,    \* TokenSpec: what the resolution did, when the last step was one
    blocked,        \* BlockSpec: the tasks of the goroutines parked in Submit
    dropped,        \* log of tasks processTask received and matched to no branch
    lastPoll,       \* PollSpec: the time of the last poller pass and the queue it left
    mu,             \* LockSpec: the goroutine holding Scheduler.mu, or Unlocked
    inPush          \* LockSpec: the workers inside the DelayedQueue.Push of scheduleRetry

schedVars == <<now, started, crashed, TaskChannel, cur, DelayedQueue, DeadQueue,
               deadCopy, nSubmitted, attempts, sends, pushed, promoted>>
heapVars == <<lastPop, lastPeek>>
rateVars == <<rnow, zset, seqCtr, zExpire, seqExpire, requests, admits, memAdmits,
              noAdmitBefore, lastCall>>
tokVars == <<tnow, tokens, cache, issued, committed, invalidated, revokedAt,
             lastNew, lastResolve>>
blockVars == <<blocked>>
lockVars == <<dropped, lastPoll, mu, inPush>>
vars == <<schedVars, heapVars, rateVars, tokVars, blockVars, lockVars>>

---------------------------------------------------------------------------
(* Bounds of the model *)

MaxTasks == 2
MaxTime == 2
NumWorkers == 2
MaxHeap == 3
MaxNowMs == 4
WindowMs == 2
IpLimit == 2
AuthLimit == 1
MaxTokNow == 4
CacheTtl == 1
AuthTtl == 2
MaxPlain == 1
MaxSubmits == 102
MaxApiTasks == 1

(* Program constants *)

ChanCap == 100

SendActivationEmail == "send-activation-email"
SendPasswordResetEmail == "send-password-reset-email"
SendTokenActivatoinEmail == "send-token-activation-email"

ZeroTime == 0

Workers == 1..NumWorkers
TaskIds == 1..MaxTasks
NoTask == [tid |-> 0]
NoPoll == [at |-> 0, left |-> << >>]

\* Goroutines, as holders of Scheduler.mu: the delay poller, worker w, nobody.
Unlocked == <<"unlocked", 0>>
Poller == <<"poller", 0>>
WorkerG(w) == <<"worker", w>>

\* What Mailer.Send returns: nil, a *MailerError with Retrieable true or
\* false, or an error that is not a *MailerError.
MailerOutcomes == {"nil", "retriable", "permanent", "other"}

\* A Task value. tid is the model's handle on the value (the handlers leave
\* Task.ID empty); Data is the dynamic type of Task.Data.
Task(tid, type, data, maxRetries, createdAt) ==
    [tid |-> tid, Type |-> type, Data |-> data, Retries |-> 0,
     MaxRetries |-> maxRetries, ExecuteAt |-> ZeroTime, CreatedAt |-> createdAt]

\* An interface{} value: its dynamic type and the value.
Iface(dyn, val) == [dyn |-> dyn, val |-> val]
NilIface == [dyn |-> "nil", val |-> NoTask]

\* The rate-limit keys of the model, one per action, and the limit of each.
RKeys == {"rl:ip:a", "rl:auth:a"}
Limit(k) == IF k = "rl:ip:a" THEN IpLimit ELSE AuthLimit
NoExpiry == -1
NoCall == [at |-> -1]

\* Tokens. A bearer string is its text and its length in bytes; rand.Text()
\* hands out strings of TokenLen bytes.
TokenLen == 26
ScopeActivation == "activation"
ScopeAuthentication == "authentication"
randText(i) == [text |-> i, len |-> TokenLen]
Plaintexts == {randText(i) : i \in 1..MaxPlain}
BearerTokens == Plaintexts \cup {[text |-> 1, len |-> TokenLen - 1], [text |-> 1, len |-> TokenLen + 1]}

\* The rows of the users table: ID and activated.
UserRows == {[ID |-> 1, Activated |-> TRUE], [ID |-> 2, Activated |-> FALSE]}

\* sha256.Sum256([]byte(plaintext)): a value that is not a bearer string,
\* different for different strings.
Sha256(p) == [sha256 |-> p]

\* The redis key of a bearer string, "token:%s".
tokenKey(token) == <<"token:", token>>
CacheKeys == {tokenKey(b) : b \in BearerTokens}
NoEntry == [has |-> FALSE, val |-> << >>, exp |-> 0]
NotRevoked == -1
NoNew == [called |-> FALSE]
NoResolve == [via |-> "none"]

---------------------------------------------------------------------------
(* PriorityQueue, minHeap.go. The model keeps the pointed-to Task values in *)
(* the slice.                                                              *)

PQLen(pq) == Len(pq)

\* Push appends x.(*Task); the assertion panics for any other dynamic type.
Push(pq, x) ==
    IF x.dyn = "*Task"
    THEN [panic |-> FALSE, pq |-> Append(pq, x.val)]
    ELSE [panic |-> TRUE, pq |-> pq]

\* Pop returns the last element of the slice and cuts it off.
Pop(pq) == [val |-> Iface("*Task", pq[Len(pq)]), pq |-> SubSeq(pq, 1, Len(pq) - 1)]

\* Peek returns the first element of the slice, nil when it is empty.
Peek(pq) == IF PQLen(pq) = 0 THEN NilIface ELSE Iface("*Task", pq[1])

BuildMinHeap == << >>

---------------------------------------------------------------------------
(* Scheduler, scheduler.go *)

Init ==
    /\ now = 1
    /\ started = FALSE
    /\ crashed = FALSE
    /\ TaskChannel = << >>
    /\ cur = [w \in Workers |-> NoTask]
    /\ DelayedQueue = BuildMinHeap
    /\ DeadQueue = << >>
    /\ deadCopy = [w \in Workers |-> << >>]
    /\ nSubmitted = 0
    /\ attempts = [t \in TaskIds |-> 0]
    /\ sends = {}
    /\ pushed = {}
    /\ promoted = {}
    /\ lastPop = [val |-> NilIface, on |-> << >>, left |-> << >>]
    /\ lastPeek = [val |-> NilIface, on |-> << >>, left |-> << >>]
    /\ rnow = 0
    /\ zset = [k \in RKeys |-> {}]
    /\ seqCtr = [k \in RKeys |-> 0]
    /\ zExpire = [k \in RKeys |-> NoExpiry]
    /\ seqExpire = [k \in RKeys |-> NoExpiry]
    /\ requests = [k \in RKeys |-> << >>]
    /\ admits = [k \in RKeys |-> << >>]
    /\ memAdmits = [k \in RKeys |-> << >>]
    /\ noAdmitBefore = [k \in RKeys |-> 0]
    /\ lastCall = [k \in RKeys |-> NoCall]
    /\ tnow = 0
    /\ tokens = {}
    /\ cache = [k \in CacheKeys |-> NoEntry]
    /\ issued = 0
    /\ committed = {}
    /\ invalidated = {}
    /\ revokedAt = [p \in Plaintexts |-> NotRevoked]
    /\ lastNew = NoNew
    /\ lastResolve = NoResolve
    /\ blocked = << >>
    /\ dropped = {}
    /\ lastPoll = NoPoll
    /\ mu = Unlocked
    /\ inPush = {}

\* s.TaskChannel <- task: the send completes when the buffer has room.
CanSubmit(ch) == Len(ch) < ChanCap
Submit(ch, task) == Append(ch, task)

Start ==
    /\ ~crashed
    /\ ~started
    /\ started' = TRUE
    /\ UNCHANGED <<now, crashed, TaskChannel, cur, DelayedQueue, DeadQueue, deadCopy,
                   nSubmitted, attempts, sends, pushed, promoted, heapVars, rateVars, tokVars, blockVars, lockVars>>

\* A request handler builds a task and submits it.
HandlerSubmit(type, data, maxRetries) ==
    /\ ~crashed
    /\ nSubmitted < MaxTasks
    /\ CanSubmit(TaskChannel)
    /\ nSubmitted' = nSubmitted + 1
    /\ TaskChannel' = Submit(TaskChannel, Task(nSubmitted + 1, type, data, maxRetries, now))
    /\ UNCHANGED <<now, started, crashed, cur, DelayedQueue, DeadQueue, deadCopy,
                   attempts, sends, pushed, promoted, heapVars, rateVars, tokVars, blockVars, lockVars>>

RegisterUser == HandlerSubmit(SendActivationEmail, "TaskEmailData", 3)

CreatePasswordResetToken == HandlerSubmit(SendPasswordResetEmail, "TaskPasswordResetEmail", 1)

CreateActivationToken == HandlerSubmit(SendTokenActivatoinEmail, "TaskTokenActivationData", 3)

\* for task := range taskChannel: a started worker receives the next task.
worker(w) ==
    /\ ~crashed
    /\ started
    /\ cur[w] = NoTask
    /\ Len(TaskChannel) > 0
    /\ cur' = [cur EXCEPT ![w] = Head(TaskChannel)]
    /\ TaskChannel' = Tail(TaskChannel)
    /\ UNCHANGED <<now, started, crashed, DelayedQueue, DeadQueue, deadCopy,
                   nSubmitted, attempts, sends, pushed, promoted, heapVars, rateVars, tokVars, blockVars, lockVars>>

\* The doubling schedule of scheduleRetry, in minutes after CreatedAt.
Backoff(k) == IF k = 1 THEN 2 ELSE IF k = 2 THEN 4 ELSE 8

\* Variant of scheduleRetry that hands the task back to the channel as it
\* is, without counting the retry.
scheduleRetry_NoCount(pq, ch, task) ==
    [panic |-> FALSE, pq |-> pq, ch |-> Submit(ch, task), task |-> task, stored |-> FALSE]

\* Variant of scheduleRetry that counts the retry and sets ExecuteAt, but
\* submits the task to the channel instead of the delayed queue.
scheduleRetry_Immediate(pq, ch, task) ==
    IF task.Retries < task.MaxRetries
    THEN LET r == task.Retries + 1
             t == [task EXCEPT !.Retries = r,
                               !.ExecuteAt = IF r \in {1, 2, 3}
                                             THEN task.CreatedAt + Backoff(r)
                                             ELSE task.ExecuteAt]
         IN  [panic |-> FALSE, pq |-> pq, ch |-> Submit(ch, t), task |-> t, stored |-> FALSE]
    ELSE [panic |-> FALSE, pq |-> pq, ch |-> ch, task |-> task, stored |-> FALSE]

\* scheduleRetry(task) on the state it reaches through s, the delayed queue
\* pq and the channel ch: the task as updated, and the result of
\* s.DelayedQueue.Push(task), which is handed the Task value itself. The
\* channel is not touched.
scheduleRetry(pq, ch, task) ==
    IF task.Retries < task.MaxRetries
    THEN LET r == task.Retries + 1
             t == [task EXCEPT !.Retries = r,
                               !.ExecuteAt = IF r \in {1, 2, 3}
                                             THEN task.CreatedAt + Backoff(r)
                                             ELSE task.ExecuteAt]
             res == Push(pq, Iface("Task", t))
         IN  [panic |-> res.panic, pq |-> res.pq, ch |-> ch, task |-> t,
              stored |-> ~res.panic]
    ELSE [panic |-> FALSE, pq |-> pq, ch |-> ch, task |-> task, stored |-> FALSE]

\* Variant of Sends without the test of the retry counter.
Sends_NoCap(task) ==
    task.Type \in {SendActivationEmail, SendPasswordResetEmail, SendTokenActivatoinEmail}

\* The branch processTask takes for a task: whether Mailer.Send is called.
Sends(task) ==
    /\ task.Type \in {SendActivationEmail, SendPasswordResetEmail, SendTokenActivatoinEmail}
    /\ task.Retries < task.MaxRetries

\* Variant of classify that takes every error for a permanent failure.
classify_OtherDead(outcome) ==
    IF outcome = "nil" THEN "none"
    ELSE IF outcome = "retriable" THEN "retry" ELSE "dead"

\* Variant of classify with the test of Retrieable inverted.
classify_Inverted(outcome) ==
    IF outcome \in {"retriable", "permanent"}
    THEN IF outcome = "retriable" THEN "dead" ELSE "retry"
    ELSE "none"

\* What processTask does with the value Mailer.Send returned: errors.As
\* finds a *MailerError or not, and Retrieable picks the branch.
classify(outcome) ==
    IF outcome \in {"retriable", "permanent"}
    THEN IF outcome = "retriable" THEN "retry" ELSE "dead"
    ELSE "none"

\* processTask(task) on worker w, the mailer answering with outcome. Every
\* method of Scheduler has a value receiver, so the append to s.DeadQueue
\* lands in the copy of the Scheduler made for this call (deadCopy) and the
\* DeadQueue of the Scheduler that was started keeps its value.
processTask(w, outcome) ==
    /\ ~crashed
    /\ cur[w] # NoTask
    /\ LET task == cur[w]
           retry == scheduleRetry(DelayedQueue, TaskChannel, task)
           branch == classify(outcome)
       IN  IF Sends(task)
           THEN /\ attempts' = [attempts EXCEPT ![task.tid] = @ + 1]
                /\ UNCHANGED dropped
                /\ sends' = sends \cup {[task |-> task, at |-> now, outcome |-> outcome]}
                /\ IF branch = "retry"
                   THEN /\ crashed' = retry.panic
                        /\ DelayedQueue' = retry.pq
                        /\ TaskChannel' = retry.ch
                        /\ pushed' = IF retry.stored THEN pushed \cup {retry.task} ELSE pushed
                        /\ deadCopy' = [deadCopy EXCEPT ![w] = DeadQueue]
                   ELSE IF branch = "dead"
                   THEN /\ deadCopy' = [deadCopy EXCEPT ![w] = Append(DeadQueue, task)]
                        /\ UNCHANGED <<crashed, DelayedQueue, TaskChannel, pushed>>
                   ELSE /\ deadCopy' = [deadCopy EXCEPT ![w] = DeadQueue]
                        /\ UNCHANGED <<crashed, DelayedQueue, TaskChannel, pushed>>
           ELSE /\ outcome = "nil"
                /\ dropped' = dropped \cup {task}
                /\ deadCopy' = [deadCopy EXCEPT ![w] = DeadQueue]
                /\ UNCHANGED <<attempts, sends, crashed, DelayedQueue, TaskChannel, pushed>>
    /\ cur' = [cur EXCEPT ![w] = NoTask]
    /\ UNCHANGED <<now, started, DeadQueue, nSubmitted, promoted, heapVars, rateVars, tokVars,
                   blockVars, lastPoll, mu, inPush>>

\* One pass of the loop of processDelayedTasks over queue pq and channel ch:
\* while the first task is a Task value that is due, pop and submit.
RECURSIVE Drain(_, _, _)
Drain(pq, ch, moved) ==
    IF PQLen(pq) = 0
    THEN [pq |-> pq, ch |-> ch, moved |-> moved, blocked |-> FALSE]
    ELSE LET x == Peek(pq)
         IN  IF x.dyn # "Task"
             THEN [pq |-> pq, ch |-> ch, moved |-> moved, blocked |-> FALSE]
             ELSE IF now < x.val.ExecuteAt
             THEN [pq |-> pq, ch |-> ch, moved |-> moved, blocked |-> FALSE]
             ELSE IF ~CanSubmit(ch)
             THEN [pq |-> Pop(pq).pq, ch |-> ch, moved |-> moved, blocked |-> TRUE]
             ELSE Drain(Pop(pq).pq, Submit(ch, x.val), moved \cup {x.val})

\* The loop of processDelayedTasks between s.mu.Lock() and s.mu.Unlock(). A
\* pass whose Submit finds the channel full does not complete, so the pass
\* is enabled when it can.
pollerPass ==
    /\ ~crashed
    /\ started
    /\ LET d == Drain(DelayedQueue, TaskChannel, {})
       IN  /\ ~d.blocked
           /\ DelayedQueue' = d.pq
           /\ TaskChannel' = d.ch
           /\ promoted' = promoted \cup d.moved
    /\ UNCHANGED <<now, started, crashed, cur, DeadQueue, deadCopy, nSubmitted,
                   attempts, sends, pushed, heapVars, rateVars, tokVars, blockVars>>

\* One tick of processDelayedTasks: lock, loop, unlock.
processDelayedTasks ==
    /\ pollerPass
    /\ UNCHANGED lockVars

\* The clock advances.
Tick ==
    /\ ~crashed
    /\ now < MaxTime
    /\ now' = now + 1
    /\ UNCHANGED <<started, crashed, TaskChannel, cur, DelayedQueue, DeadQueue, deadCopy,
                   nSubmitted, attempts, sends, pushed, promoted, heapVars, rateVars, tokVars, blockVars, lockVars>>

Next ==
    \/ Start
    \/ RegisterUser
    \/ CreatePasswordResetToken
    \/ CreateActivationToken
    \/ \E w \in Workers : worker(w)
    \/ \E w \in Workers, outcome \in MailerOutcomes : processTask(w, outcome)
    \/ processDelayedTasks
    \/ Tick

Spec == Init /\ [][Next]_vars

---------------------------------------------------------------------------
(* The PriorityQueue on its own: Push, Pop and Peek called with *Task     *)
(* values, the way scheduleRetry and processDelayedTasks call them.        *)

HeapInit == Init

HeapPush(e) ==
    /\ PQLen(DelayedQueue) < MaxHeap
    /\ LET t == [Task(PQLen(DelayedQueue) + 1, SendActivationEmail, "TaskEmailData", 3, 1)
                   EXCEPT !.ExecuteAt = e]
       IN  DelayedQueue' = Push(DelayedQueue, Iface("*Task", t)).pq
    /\ UNCHANGED <<now, started, crashed, TaskChannel, cur, DeadQueue, deadCopy,
                   nSubmitted, attempts, sends, pushed, promoted, heapVars, rateVars, tokVars, blockVars, lockVars>>

HeapPop ==
    /\ PQLen(DelayedQueue) > 0
    /\ DelayedQueue' = Pop(DelayedQueue).pq
    /\ lastPop' = [val |-> Pop(DelayedQueue).val, on |-> DelayedQueue,
                   left |-> Pop(DelayedQueue).pq]
    /\ UNCHANGED <<now, started, crashed, TaskChannel, cur, DeadQueue, deadCopy,
                   nSubmitted, attempts, sends, pushed, promoted, lastPeek, rateVars, tokVars, blockVars, lockVars>>

HeapPeek ==
    /\ lastPeek' = [val |-> Peek(DelayedQueue), on |-> DelayedQueue, left |-> DelayedQueue]
    /\ UNCHANGED <<now, started, crashed, TaskChannel, cur, DelayedQueue, DeadQueue,
                   deadCopy, nSubmitted, attempts, sends, pushed, promoted, lastPop, rateVars, tokVars, blockVars, lockVars>>

HeapNext ==
    \/ \E e \in 1..MaxTime : HeapPush(e)
    \/ HeapPop
    \/ HeapPeek

HeapSpec == HeapInit /\ [][HeapNext]_vars

---------------------------------------------------------------------------
(* The sliding-window limiters: the store-side script and RateLimiter     *)

\* Variant of ZREMRANGEBYSCORE whose upper bound is exclusive.
ZRemRangeByScore_Exclusive(z, lo, hi) == {m \in z : ~(lo <= m.score /\ m.score < hi)}

\* ZREMRANGEBYSCORE key lo hi: the members left, those scored outside [lo, hi].
ZRemRangeByScore(z, lo, hi) == {m \in z : ~(lo <= m.score /\ m.score <= hi)}

\* ZRANGE key 0 0 WITHSCORES: the score of the lowest member.
OldestScore(z) == CHOOSE sc \in {m.score : m \in z} : \A m \in z : sc <= m.score

\* The highest score of the set.
NewestScore(z) == CHOOSE sc \in {m.score : m \in z} : \A m \in z : sc >= m.score

\* Variant of the script that denies only when count > limit.
SlidingWindow_OffByOne(z, c, t, limit, window_ms) ==
    LET cutoff == t - window_ms
        z1 == ZRemRangeByScore(z, 0, cutoff)
        count == Cardinality(z1)
    IN  IF count > limit
        THEN IF z1 # {}
             THEN LET retry_ms == window_ms - (t - OldestScore(z1))
                  IN  [ret |-> <<0, IF retry_ms < 0 THEN 0 ELSE retry_ms>>,
                       z |-> z1, c |-> c, ttl |-> FALSE]
             ELSE [ret |-> <<0, window_ms>>, z |-> z1, c |-> c, ttl |-> FALSE]
        ELSE [ret |-> <<1, 0>>,
              z |-> z1 \cup {[score |-> t, member |-> <<t, c + 1>>]},
              c |-> c + 1, ttl |-> TRUE]

\* Variant of the script that reads the newest member (ZRANGE key -1 -1)
\* for the retry hint.
SlidingWindow_Newest(z, c, t, limit, window_ms) ==
    LET cutoff == t - window_ms
        z1 == ZRemRangeByScore(z, 0, cutoff)
        count == Cardinality(z1)
    IN  IF count >= limit
        THEN IF z1 # {}
             THEN LET retry_ms == window_ms - (t - NewestScore(z1))
                  IN  [ret |-> <<0, IF retry_ms < 0 THEN 0 ELSE retry_ms>>,
                       z |-> z1, c |-> c, ttl |-> FALSE]
             ELSE [ret |-> <<0, window_ms>>, z |-> z1, c |-> c, ttl |-> FALSE]
        ELSE [ret |-> <<1, 0>>,
              z |-> z1 \cup {[score |-> t, member |-> <<t, c + 1>>]},
              c |-> c + 1, ttl |-> TRUE]

\* Variant of the script whose member is the timestamp alone, without the
\* value of the :seq counter.
SlidingWindow_NoSeq(z, c, t, limit, window_ms) ==
    LET cutoff == t - window_ms
        z1 == ZRemRangeByScore(z, 0, cutoff)
        count == Cardinality(z1)
    IN  IF count >= limit
        THEN IF z1 # {}
             THEN LET retry_ms == window_ms - (t - OldestScore(z1))
                  IN  [ret |-> <<0, IF retry_ms < 0 THEN 0 ELSE retry_ms>>,
                       z |-> z1, c |-> c, ttl |-> FALSE]
             ELSE [ret |-> <<0, window_ms>>, z |-> z1, c |-> c, ttl |-> FALSE]
        ELSE [ret |-> <<1, 0>>,
              z |-> z1 \cup {[score |-> t, member |-> <<t, 0>>]},
              c |-> c + 1, ttl |-> TRUE]

\* The script on the sorted set z and counter c at server time t: the reply,
\* the set and counter it leaves, and whether it set the TTLs.
SlidingWindow(z, c, t, limit, window_ms) ==
    LET cutoff == t - window_ms
        z1 == ZRemRangeByScore(z, 0, cutoff)
        count == Cardinality(z1)
    IN  IF count >= limit
        THEN IF z1 # {}
             THEN LET retry_ms == window_ms - (t - OldestScore(z1))
                  IN  [ret |-> <<0, IF retry_ms < 0 THEN 0 ELSE retry_ms>>,
                       z |-> z1, c |-> c, ttl |-> FALSE]
             ELSE [ret |-> <<0, window_ms>>, z |-> z1, c |-> c, ttl |-> FALSE]
        ELSE [ret |-> <<1, 0>>,
              z |-> z1 \cup {[score |-> t, member |-> <<t, c + 1>>]},
              c |-> c + 1, ttl |-> TRUE]

\* Variant of RateLimiter.Allow that keeps the timestamps not before the
\* cutoff (!ts.Before(cutoff)).
MemAllow_Inclusive(ts, t, limit, window) ==
    LET cutoff == t - window
        valid == SelectSeq(ts, LAMBDA x : x >= cutoff)
    IN  IF Len(valid) >= limit
        THEN [ok |-> FALSE, ts |-> valid]
        ELSE [ok |-> TRUE, ts |-> Append(valid, t)]

\* RateLimiter.Allow on the timestamps ts kept for the key, at time t.
MemAllow(ts, t, limit, window) ==
    LET cutoff == t - window
        valid == SelectSeq(ts, LAMBDA x : x > cutoff)
    IN  IF Len(valid) >= limit
        THEN [ok |-> FALSE, ts |-> valid]
        ELSE [ok |-> TRUE, ts |-> Append(valid, t)]

RateInit == Init

\* A request for key k at the current millisecond, put to the script and to
\* RateLimiter.Allow.
Allow(k) ==
    LET r == SlidingWindow(zset[k], seqCtr[k], rnow, Limit(k), WindowMs)
        m == MemAllow(requests[k], rnow, Limit(k), WindowMs)
    IN  /\ zset' = [zset EXCEPT ![k] = r.z]
        /\ seqCtr' = [seqCtr EXCEPT ![k] = r.c]
        /\ zExpire' = [zExpire EXCEPT ![k] = IF r.ttl THEN rnow + WindowMs
                                             ELSE IF r.z = {} THEN NoExpiry ELSE @]
        /\ seqExpire' = [seqExpire EXCEPT ![k] = IF r.ttl THEN rnow + WindowMs ELSE @]
        /\ requests' = [requests EXCEPT ![k] = m.ts]
        /\ admits' = [admits EXCEPT ![k] =
               IF r.ret[1] = 1 THEN Append(@, [at |-> rnow, bar |-> noAdmitBefore[k]]) ELSE @]
        /\ memAdmits' = [memAdmits EXCEPT ![k] = IF m.ok THEN Append(@, rnow) ELSE @]
        /\ noAdmitBefore' = [noAdmitBefore EXCEPT ![k] =
               IF r.ret[1] = 0 /\ rnow + r.ret[2] > @ THEN rnow + r.ret[2] ELSE @]
        /\ lastCall' = [lastCall EXCEPT ![k] =
               [at |-> rnow, ret |-> r.ret, mem |-> m.ok, n |-> Len(admits[k]),
                evicted |-> Cardinality(zset[k]) - Cardinality(ZRemRangeByScore(zset[k], 0, rnow - WindowMs))]]
        /\ UNCHANGED <<rnow, schedVars, heapVars, tokVars, blockVars, lockVars>>

\* RateLimiter.cleanup: drop the timestamps that left the window.
cleanup ==
    /\ requests' = [k \in RKeys |-> SelectSeq(requests[k], LAMBDA x : x > rnow - WindowMs)]
    /\ UNCHANGED <<rnow, zset, seqCtr, zExpire, seqExpire, admits, memAdmits,
                   noAdmitBefore, lastCall, schedVars, heapVars, tokVars, blockVars, lockVars>>

\* A millisecond passes; the store drops the keys whose TTL has run out.
RateTick ==
    /\ rnow < MaxNowMs
    /\ rnow' = rnow + 1
    /\ zset' = [k \in RKeys |->
           IF zExpire[k] # NoExpiry /\ zExpire[k] <= rnow + 1 THEN {} ELSE zset[k]]
    /\ zExpire' = [k \in RKeys |->
           IF zExpire[k] # NoExpiry /\ zExpire[k] <= rnow + 1 THEN NoExpiry ELSE zExpire[k]]
    /\ seqCtr' = [k \in RKeys |->
           IF seqExpire[k] # NoExpiry /\ seqExpire[k] <= rnow + 1 THEN 0 ELSE seqCtr[k]]
    /\ seqExpire' = [k \in RKeys |->
           IF seqExpire[k] # NoExpiry /\ seqExpire[k] <= rnow + 1 THEN NoExpiry ELSE seqExpire[k]]
    /\ UNCHANGED <<requests, admits, memAdmits, noAdmitBefore, lastCall, schedVars, heapVars, tokVars, blockVars, lockVars>>

RateNext ==
    \/ \E k \in RKeys : Allow(k)
    \/ cleanup
    \/ RateTick

RateSpec == RateInit /\ [][RateNext]_vars

---------------------------------------------------------------------------
(* Token resolution: internal/cache/redis.go, the tokens model, the token    *)
(* service and the authenticate middleware. A string is the sequence of its *)
(* pieces; the empty string is << >>.                                       *)

\* fmt.Sprintf("id:%d,activated:%t", userID, activated)
FormatUserData(userID, activated) ==
    <<"id:", ToString(userID), ",", "activated:", IF activated THEN "true" ELSE "false">>

\* strings.Split(s, sep): the pieces between the separators; one empty piece
\* for the empty string.
RECURSIVE Split(_, _)
Split(s, sep) ==
    IF \E i \in 1..Len(s) : s[i] = sep
    THEN LET i == CHOOSE i \in 1..Len(s) : s[i] = sep /\ \A j \in 1..(i - 1) : s[j] # sep
         IN  <<SubSeq(s, 1, i - 1)>> \o Split(SubSeq(s, i + 1, Len(s)), sep)
    ELSE <<s>>

\* strings.CutPrefix(s, prefix), the string it returns.
CutPrefix(s, prefix) == IF Len(s) > 0 /\ s[1] = prefix THEN Tail(s) ELSE s

\* strconv.ParseInt(s, 10, 64) with its error dropped: 0 when s is no number.
ParseInt(s) ==
    IF Len(s) = 1 /\ \E n \in 0..9 : ToString(n) = s[1]
    THEN CHOOSE n \in 0..9 : ToString(n) = s[1]
    ELSE 0

\* strconv.ParseBool(s) with its error dropped: false when s is no boolean.
ParseBool(s) == Len(s) = 1 /\ s[1] \in {"1", "t", "T", "TRUE", "true", "True"}

\* GET key: the value when the key is there, redis.Nil otherwise.
redisGet(c, key) ==
    IF key \in DOMAIN c /\ c[key].has
    THEN [val |-> c[key].val, nil |-> FALSE]
    ELSE [val |-> << >>, nil |-> TRUE]

\* The keys the store still holds at time t: a key is dropped when its TTL
\* has run out.
redisExpire(c, t) ==
    [k \in DOMAIN c |-> IF c[k].has /\ c[k].exp # NoExpiry /\ c[k].exp <= t THEN NoEntry ELSE c[k]]

\* RedisClient.GetForToken: ("", nil) on redis.Nil, ("", err) on an error.
GetForToken_ErrAsMiss(c, token, t, fail) ==
    IF fail THEN [val |-> << >>, err |-> "nil"]
    ELSE [val |-> redisGet(c, tokenKey(token)).val, err |-> "nil"]

GetForToken(c, token, t, fail) ==
    IF fail THEN [val |-> << >>, err |-> "error"]
    ELSE [val |-> redisGet(c, tokenKey(token)).val, err |-> "nil"]

\* RedisClient.SetToken: SET key value with the client's ttl.
SetToken_NoTtl(c, token, userID, activated, t, fail) ==
    IF fail THEN [c |-> c, err |-> "error"]
    ELSE [c |-> [c EXCEPT ![tokenKey(token)] =
                    [has |-> TRUE, val |-> FormatUserData(userID, activated), exp |-> NoExpiry]],
          err |-> "nil"]

SetToken(c, token, userID, activated, t, fail) ==
    IF fail THEN [c |-> c, err |-> "error"]
    ELSE [c |-> [c EXCEPT ![tokenKey(token)] =
                    [has |-> TRUE, val |-> FormatUserData(userID, activated), exp |-> t + CacheTtl]],
          err |-> "nil"]

\* RedisClient.DeleteToken: DEL key.
DeleteToken(c, token) == [c EXCEPT ![tokenKey(token)] = NoEntry]

\* generateToken: the token of a fresh plaintext.
generateToken_PlainHash(plaintext, userID, ttl, scope, t) ==
    [Plaintext |-> plaintext, Hash |-> plaintext, UserID |-> userID,
     Expiry |-> t + ttl, Scope |-> scope]

generateToken(plaintext, userID, ttl, scope, t) ==
    [Plaintext |-> plaintext, Hash |-> Sha256(plaintext), UserID |-> userID,
     Expiry |-> t + ttl, Scope |-> scope]

\* tokenModel.Insert: INSERT INTO tokens (hash, user_id, expiry, scope).
tokenModelInsert_SwallowError(rows, token, fail) ==
    IF fail THEN [rows |-> rows, err |-> "nil"]
    ELSE [rows |-> rows \cup {[hash |-> token.Hash, user_id |-> token.UserID,
                               expiry |-> token.Expiry, scope |-> token.Scope]},
          err |-> "nil"]

tokenModelInsert(rows, token, fail) ==
    IF fail THEN [rows |-> rows, err |-> "error"]
    ELSE [rows |-> rows \cup {[hash |-> token.Hash, user_id |-> token.UserID,
                               expiry |-> token.Expiry, scope |-> token.Scope]},
          err |-> "nil"]

\* tokenModel.New: generateToken, then Insert; the token is returned with
\* Insert's error.
tokenModelNew(rows, plaintext, userID, ttl, scope, t, fail) ==
    LET token == generateToken(plaintext, userID, ttl, scope, t)
        ins == tokenModelInsert(rows, token, fail)
    IN  [token |-> token, err |-> ins.err, rows |-> ins.rows]

\* tokenModel.DeleteAllForUser: DELETE FROM tokens WHERE scope = $1 AND user_id = $2.
DeleteAllForUser(rows, scope, id) == {r \in rows : ~(r.scope = scope /\ r.user_id = id)}

\* tokenModel.DeleteExpiredToken: DELETE FROM tokens WHERE expiry < $1.
DeleteExpiredToken(rows, t) == {r \in rows : ~(r.expiry < t)}

\* The rows a lookup of the bearer string matches: a non-expired row of the
\* scope whose hash is SHA-256 of the string.
MatchingRows(rows, token, scope, t) ==
    {r \in rows : r.hash = Sha256(token) /\ r.scope = scope /\ r.expiry > t}

\* userModel.GetForToken: the user of the matching row, ErrRecordNotFound
\* when there is none.
UsersGetForToken(rows, token, scope, t, fail) ==
    IF fail THEN [user |-> [ID |-> 0, Activated |-> FALSE], err |-> "error"]
    ELSE IF MatchingRows(rows, token, scope, t) = {}
    THEN [user |-> [ID |-> 0, Activated |-> FALSE], err |-> "ErrRecordNotFound"]
    ELSE [user |-> CHOOSE u \in UserRows :
                       u.ID = (CHOOSE r \in MatchingRows(rows, token, scope, t) : TRUE).user_id,
          err |-> "nil"]

\* What a resolution did: its answer, the cache after it, and the calls it
\* made (get: none, or what the store did with the GET: hit, miss or error;
\* db: none, row, absent or error; set: SetToken was called; wrote: SetToken
\* stored the entry).
Outcome(kind, user, c, get, db, set, wrote) ==
    [kind |-> kind, ID |-> user.ID, Activated |-> user.Activated, c |-> c,
     get |-> get, db |-> db, set |-> set, wrote |-> wrote]
NoUser == [ID |-> 0, Activated |-> FALSE]

\* v.Check(len(tokenPlainText) == 26, ...)
ValidToken_Any(token) == TRUE

ValidToken(token) == token.len = TokenLen

\* The user decoded from a cached value; tempUserData[1] is out of range when
\* the value has no comma.
DecodeUserData(val) ==
    LET tempUserData == Split(val, ",")
    IN  IF Len(tempUserData) < 2
        THEN [panic |-> TRUE, user |-> NoUser]
        ELSE [panic |-> FALSE,
              user |-> [ID |-> ParseInt(CutPrefix(tempUserData[1], "id:")),
                        Activated |-> ParseBool(CutPrefix(tempUserData[2], "activated:"))]]

\* TokenService.GetUserForToken. The branch on err == nil is taken on a hit
\* and on a miss alike, GetForToken returning ("", nil) for a miss.
GetUserForToken(c, rows, t, token, getFail, dbFail, setFail) ==
    IF ~ValidToken(token)
    THEN Outcome("ErrInvalidToken", NoUser, c, "none", "none", FALSE, FALSE)
    ELSE LET g == GetForToken(c, token, t, getFail)
             get == IF getFail THEN "error"
                    ELSE IF redisGet(c, tokenKey(token)).nil THEN "miss" ELSE "hit"
         IN  IF g.err = "nil"
             THEN LET d == DecodeUserData(g.val)
                  IN  IF d.panic
                      THEN Outcome("panic", NoUser, c, get, "none", FALSE, FALSE)
                      ELSE Outcome("user", d.user, c, get, "none", FALSE, FALSE)
             ELSE LET u == UsersGetForToken(rows, token, ScopeAuthentication, t, dbFail)
                  IN  IF u.err = "ErrRecordNotFound"
                      THEN Outcome("ErrInvalidToken", NoUser, c, get, "absent", FALSE, FALSE)
                      ELSE IF u.err # "nil"
                      THEN Outcome("error", NoUser, c, get, "error", FALSE, FALSE)
                      ELSE LET s == SetToken(c, token, u.user.ID, u.user.Activated, t, setFail)
                           IN  Outcome("user", u.user, s.c, get, "row", TRUE, s.err = "nil")

\* application.authenticate with the lookup in the middleware: the cached
\* value is used when it is not empty, the database otherwise; the cache is
\* not written.
authenticate(c, rows, t, token, getFail, dbFail) ==
    IF ~ValidToken(token)
    THEN Outcome("ErrInvalidToken", NoUser, c, "none", "none", FALSE, FALSE)
    ELSE LET g == GetForToken(c, token, t, getFail)
             get == IF getFail THEN "error"
                    ELSE IF redisGet(c, tokenKey(token)).nil THEN "miss" ELSE "hit"
         IN  IF g.val # << >>
             THEN LET d == DecodeUserData(g.val)
                  IN  IF d.panic
                      THEN Outcome("panic", NoUser, c, get, "none", FALSE, FALSE)
                      ELSE Outcome("user", d.user, c, get, "none", FALSE, FALSE)
             ELSE LET u == UsersGetForToken(rows, token, ScopeAuthentication, t, dbFail)
                  IN  IF u.err = "ErrRecordNotFound"
                      THEN Outcome("ErrInvalidToken", NoUser, c, get, "absent", FALSE, FALSE)
                      ELSE IF u.err # "nil"
                      THEN Outcome("error", NoUser, c, get, "error", FALSE, FALSE)
                      ELSE Outcome("user", u.user, c, get, "row", FALSE, FALSE)

TokenInit == Init

\* The plaintexts whose hash is in a row of added.
PlaintextsOf(added) == {p \in Plaintexts : \E r \in added : r.hash = Sha256(p)}

\* The plaintexts a lookup of scope authentication finds at time t.
ValidAt(rows, t) == {p \in Plaintexts : MatchingRows(rows, p, ScopeAuthentication, t) # {}}

\* revokedAt after a step that took the rows from valid at time t to rows'
\* at time t': a plaintext that stopped being valid did so at t'.
Revoke(rows, t, rows2, t2) ==
    [p \in Plaintexts |->
        IF revokedAt[p] = NotRevoked /\ p \in ValidAt(rows, t) /\ p \notin ValidAt(rows2, t2)
        THEN t2 ELSE revokedAt[p]]

\* TokenService.CreateAuthToken (createAuthenticationTokenHandler alike) for
\* the credentials of user u: the token row is inserted, then the cache entry
\* is written; a SetToken error is logged only.
CreateAuthToken(u, dbFail, setFail) ==
    /\ issued < MaxPlain
    /\ LET plaintext == randText(issued + 1)
           n == tokenModelNew(tokens, plaintext, u.ID, AuthTtl, ScopeAuthentication, tnow, dbFail)
           s == SetToken(cache, plaintext, u.ID, u.Activated, tnow, setFail)
       IN  /\ issued' = issued + 1
           /\ tokens' = n.rows
           /\ committed' = committed \cup PlaintextsOf(n.rows \ tokens)
           /\ lastNew' = [called |-> TRUE, token |-> n.token, err |-> n.err]
           /\ cache' = IF n.err # "nil" THEN cache ELSE s.c
    /\ lastResolve' = NoResolve
    /\ UNCHANGED <<tnow, invalidated, revokedAt>>
    /\ UNCHANGED <<schedVars, heapVars, rateVars, blockVars, lockVars>>

\* The token row of TokenService.CreateActivationToken for a user that is not
\* activated: tokenModel.New(user.ID, 3*24*time.Hour, data.ScopeActivation).
NewActivationToken(u, dbFail) ==
    /\ issued < MaxPlain
    /\ ~u.Activated
    /\ LET plaintext == randText(issued + 1)
           n == tokenModelNew(tokens, plaintext, u.ID, 3 * AuthTtl, ScopeActivation, tnow, dbFail)
       IN  /\ issued' = issued + 1
           /\ tokens' = n.rows
           /\ committed' = committed \cup PlaintextsOf(n.rows \ tokens)
           /\ lastNew' = [called |-> TRUE, token |-> n.token, err |-> n.err]
    /\ lastResolve' = NoResolve
    /\ UNCHANGED <<tnow, cache, invalidated, revokedAt>>
    /\ UNCHANGED <<schedVars, heapVars, rateVars, blockVars, lockVars>>

\* The record of a resolution of token that did o.
Resolved(via, token, o) ==
    [via |-> via, token |-> token, kind |-> o.kind, ID |-> o.ID,
     Activated |-> o.Activated, get |-> o.get, db |-> o.db, set |-> o.set, wrote |-> o.wrote,
     valid |-> MatchingRows(tokens, token, ScopeAuthentication, tnow) # {},
     invalidated |-> token \in invalidated]

\* A request with the bearer string token, resolved by TokenService.GetUserForToken.
\* The faults that can show: the database is reached after a failed
\* GetForToken only, SetToken after an answered query only.
ResolveService(token, getFail, dbFail, setFail) ==
    /\ (dbFail \/ setFail) => getFail
    /\ ~(dbFail /\ setFail)
    /\ LET o == GetUserForToken(cache, tokens, tnow, token, getFail, dbFail, setFail)
       IN  /\ cache' = o.c
           /\ lastResolve' = Resolved("service", token, o)
    /\ lastNew' = NoNew
    /\ UNCHANGED <<tnow, tokens, issued, committed, invalidated, revokedAt>>
    /\ UNCHANGED <<schedVars, heapVars, rateVars, blockVars, lockVars>>

\* A request with the bearer string token, resolved inside the middleware.
ResolveMiddleware(token, getFail, dbFail) ==
    /\ LET o == authenticate(cache, tokens, tnow, token, getFail, dbFail)
       IN  /\ cache' = o.c
           /\ lastResolve' = Resolved("middleware", token, o)
    /\ lastNew' = NoNew
    /\ UNCHANGED <<tnow, tokens, issued, committed, invalidated, revokedAt>>
    /\ UNCHANGED <<schedVars, heapVars, rateVars, blockVars, lockVars>>

\* invalidate(token): RedisClient.DeleteToken.
Invalidate(token) ==
    /\ token.text <= issued
    /\ cache' = DeleteToken(cache, token)
    /\ invalidated' = invalidated \cup {token}
    /\ lastNew' = NoNew
    /\ lastResolve' = NoResolve
    /\ UNCHANGED <<tnow, tokens, issued, committed, revokedAt>>
    /\ UNCHANGED <<schedVars, heapVars, rateVars, blockVars, lockVars>>

\* tokenModel.DeleteAllForUser(scope, id).
RevokeAllForUser(scope, u) ==
    /\ tokens' = DeleteAllForUser(tokens, scope, u.ID)
    /\ tokens' # tokens
    /\ revokedAt' = Revoke(tokens, tnow, tokens', tnow)
    /\ lastNew' = NoNew
    /\ lastResolve' = NoResolve
    /\ UNCHANGED <<tnow, cache, issued, committed, invalidated>>
    /\ UNCHANGED <<schedVars, heapVars, rateVars, blockVars, lockVars>>

\* tokenModel.DeleteExpiredToken at the current time.
PurgeExpired ==
    /\ tokens' = DeleteExpiredToken(tokens, tnow)
    /\ tokens' # tokens
    /\ revokedAt' = Revoke(tokens, tnow, tokens', tnow)
    /\ lastNew' = NoNew
    /\ lastResolve' = NoResolve
    /\ UNCHANGED <<tnow, cache, issued, committed, invalidated>>
    /\ UNCHANGED <<schedVars, heapVars, rateVars, blockVars, lockVars>>

\* A tick of the clock passes; the store drops the keys whose TTL has run
\* out, and the rows whose expiry is reached stop matching.
TokenTick ==
    /\ tnow < MaxTokNow
    /\ tnow' = tnow + 1
    /\ cache' = redisExpire(cache, tnow + 1)
    /\ revokedAt' = Revoke(tokens, tnow, tokens, tnow + 1)
    /\ lastNew' = NoNew
    /\ lastResolve' = NoResolve
    /\ UNCHANGED <<tokens, issued, committed, invalidated>>
    /\ UNCHANGED <<schedVars, heapVars, rateVars, blockVars, lockVars>>

TokenNext ==
    \/ \E u \in UserRows : \E dbFail, setFail \in BOOLEAN : CreateAuthToken(u, dbFail, setFail)
    \/ \E u \in UserRows : \E dbFail \in BOOLEAN : NewActivationToken(u, dbFail)
    \/ \E token \in BearerTokens : \E getFail, dbFail, setFail \in BOOLEAN :
           ResolveService(token, getFail, dbFail, setFail)
    \/ \E token \in BearerTokens : \E getFail, dbFail \in BOOLEAN :
           ResolveMiddleware(token, getFail, dbFail)
    \/ \E scope \in {ScopeAuthentication, ScopeActivation} : \E u \in UserRows :
           RevokeAllForUser(scope, u)
    \/ PurgeExpired
    \/ TokenTick

TokenSpec == TokenInit /\ [][TokenNext]_vars

\* TokenSpec with invalidate(token), which no code of the repository calls.
LogoutNext ==
    \/ TokenNext
    \/ \E token \in Plaintexts : Invalidate(token)

LogoutSpec == TokenInit /\ [][LogoutNext]_vars

---------------------------------------------------------------------------
(* The ingress channel when it fills up: Submit is the plain send           *)
(* s.TaskChannel <- task, which parks the calling goroutine while the      *)
(* buffer is full. The workers are taken as receivers whose processTask    *)
(* sends the mail with success.                                            *)

BlockInit == Init

\* A handler builds a task and calls Submit: the send completes when the
\* buffer has room, the goroutine is parked in it otherwise.
SubmitCall ==
    /\ ~crashed
    /\ nSubmitted < MaxSubmits
    /\ nSubmitted' = nSubmitted + 1
    /\ LET task == Task(nSubmitted + 1, SendActivationEmail, "TaskEmailData", 3, now)
       IN  IF CanSubmit(TaskChannel)
           THEN TaskChannel' = Submit(TaskChannel, task) /\ UNCHANGED blocked
           ELSE blocked' = Append(blocked, task) /\ UNCHANGED TaskChannel
    /\ UNCHANGED <<now, started, crashed, cur, DelayedQueue, DeadQueue, deadCopy,
                   attempts, sends, pushed, promoted, heapVars, rateVars, tokVars, lockVars>>

\* The buffer has room again: the send of the goroutine parked first completes.
SubmitResume ==
    /\ ~crashed
    /\ blocked # << >>
    /\ CanSubmit(TaskChannel)
    /\ TaskChannel' = Submit(TaskChannel, Head(blocked))
    /\ blocked' = Tail(blocked)
    /\ UNCHANGED <<now, started, crashed, cur, DelayedQueue, DeadQueue, deadCopy,
                   nSubmitted, attempts, sends, pushed, promoted, heapVars, rateVars, tokVars, lockVars>>

\* for task := range taskChannel { s.processTask(task) }: a started worker
\* receives the next task and sends its mail.
workerReceive(w) ==
    /\ ~crashed
    /\ started
    /\ Len(TaskChannel) > 0
    /\ TaskChannel' = Tail(TaskChannel)
    /\ UNCHANGED <<now, started, crashed, cur, DelayedQueue, DeadQueue, deadCopy,
                   nSubmitted, attempts, sends, pushed, promoted, heapVars, rateVars,
                   tokVars, blockVars, lockVars>>

BlockNext ==
    \/ SubmitCall
    \/ SubmitResume
    \/ Start
    \/ \E w \in Workers : workerReceive(w)

BlockSpec == BlockInit /\ [][BlockNext]_vars

\* The goroutines that exist run: a parked send completes once there is room,
\* a started worker receives when there is a task. Nothing obliges a handler
\* to call Submit or the program to call Start.
FairBlockSpec ==
    /\ BlockSpec
    /\ WF_vars(SubmitResume)
    /\ \A w \in Workers : WF_vars(workerReceive(w))

---------------------------------------------------------------------------
(* Scheduler.Submit as the exported method it is: called with any Task     *)
(* value, one whose payload is of another type than its kind asks for, or  *)
(* whose MaxRetries is zero, included.                                     *)

\* The payload type processTask asserts for the kind: task.Data.(T).
PayloadOf(type) ==
    IF type = SendActivationEmail THEN "TaskEmailData"
    ELSE IF type = SendPasswordResetEmail THEN "TaskPasswordResetEmail"
    ELSE "TaskTokenActivationData"

\* The Task values of the callers of Submit: kinds (one of them unknown to
\* processTask), payload types and MaxRetries.
ApiKinds == {SendActivationEmail, SendPasswordResetEmail, "unknown-kind"}
ApiPayloads == {"TaskEmailData", "TaskPasswordResetEmail"}
ApiMaxRetries == {0, 1}

ApiInit == Init

SubmitTask(type, data, maxRetries) ==
    /\ nSubmitted < MaxApiTasks
    /\ HandlerSubmit(type, data, maxRetries)

ApiNext ==
    \/ Start
    \/ \E type \in ApiKinds, data \in ApiPayloads, maxRetries \in ApiMaxRetries :
           SubmitTask(type, data, maxRetries)
    \/ \E w \in Workers : worker(w)
    \/ \E w \in Workers, outcome \in MailerOutcomes : processTask(w, outcome)
    \/ processDelayedTasks
    \/ Tick

ApiSpec == ApiInit /\ [][ApiNext]_vars

---------------------------------------------------------------------------
(* The delay poller on a delayed queue that holds tasks: the queue is      *)
(* filled through Push with *Task values, the only values Push stores.     *)

PollInit == Init

\* One tick of processDelayedTasks, noting the time of the pass and the
\* queue it leaves behind.
PollTick ==
    /\ pollerPass
    /\ lastPoll' = [at |-> now, left |-> DelayedQueue']
    /\ UNCHANGED <<dropped, mu, inPush>>

PollNext ==
    \/ Start
    \/ \E e \in 1..MaxTime : HeapPush(e)
    \/ PollTick
    \/ Tick

PollSpec == PollInit /\ [][PollNext]_vars

---------------------------------------------------------------------------
(* The scheduler with its goroutines interleaved at the calls that touch   *)
(* the delayed queue: the poller between s.mu.Lock() and s.mu.Unlock(),    *)
(* and a worker between the call of s.DelayedQueue.Push and its return.    *)

LockInit == Init

\* processDelayedTasks, a tick of the ticker: s.mu.Lock().
pollerLock ==
    /\ ~crashed
    /\ started
    /\ mu = Unlocked
    /\ mu' = Poller
    /\ UNCHANGED <<schedVars, heapVars, rateVars, tokVars, blockVars, dropped, lastPoll, inPush>>

\* processDelayedTasks: the loop over the queue, then s.mu.Unlock().
pollerUnlock ==
    /\ mu = Poller
    /\ pollerPass
    /\ mu' = Unlocked
    /\ UNCHANGED <<dropped, lastPoll, inPush>>

\* Variant of scheduleRetryCall that takes s.mu before it touches the queue.
scheduleRetryCall_Locked(w) ==
    /\ ~crashed
    /\ cur[w] # NoTask
    /\ w \notin inPush
    /\ Sends(cur[w])
    /\ mu = Unlocked
    /\ mu' = WorkerG(w)
    /\ attempts' = [attempts EXCEPT ![cur[w].tid] = @ + 1]
    /\ sends' = sends \cup {[task |-> cur[w], at |-> now, outcome |-> "retriable"]}
    /\ inPush' = inPush \cup {w}
    /\ UNCHANGED <<now, started, crashed, TaskChannel, cur, DelayedQueue, DeadQueue, deadCopy,
                   nSubmitted, pushed, promoted, heapVars, rateVars, tokVars, blockVars,
                   dropped, lastPoll>>

\* processTask on worker w up to the call of s.DelayedQueue.Push: Mailer.Send
\* has returned a retriable MailerError and scheduleRetry has been entered.
\* scheduleRetry takes no lock.
scheduleRetryCall(w) ==
    /\ ~crashed
    /\ cur[w] # NoTask
    /\ w \notin inPush
    /\ Sends(cur[w])
    /\ attempts' = [attempts EXCEPT ![cur[w].tid] = @ + 1]
    /\ sends' = sends \cup {[task |-> cur[w], at |-> now, outcome |-> "retriable"]}
    /\ inPush' = inPush \cup {w}
    /\ UNCHANGED <<now, started, crashed, TaskChannel, cur, DelayedQueue, DeadQueue, deadCopy,
                   nSubmitted, pushed, promoted, heapVars, rateVars, tokVars, blockVars,
                   dropped, lastPoll, mu>>

\* The Push of scheduleRetry ends, and with it processTask.
scheduleRetryReturn(w) ==
    /\ ~crashed
    /\ w \in inPush
    /\ LET retry == scheduleRetry(DelayedQueue, TaskChannel, cur[w])
       IN  /\ crashed' = retry.panic
           /\ DelayedQueue' = retry.pq
           /\ TaskChannel' = retry.ch
           /\ pushed' = IF retry.stored THEN pushed \cup {retry.task} ELSE pushed
    /\ deadCopy' = [deadCopy EXCEPT ![w] = DeadQueue]
    /\ cur' = [cur EXCEPT ![w] = NoTask]
    /\ inPush' = inPush \ {w}
    /\ UNCHANGED <<now, started, DeadQueue, nSubmitted, attempts, sends, promoted, heapVars,
                   rateVars, tokVars, blockVars, dropped, lastPoll, mu>>

\* processTask on worker w when the mailer's answer leads to no retry.
processTaskNoRetry(w, outcome) ==
    /\ w \notin inPush
    /\ classify(outcome) # "retry"
    /\ processTask(w, outcome)

LockNext ==
    \/ Start
    \/ RegisterUser
    \/ CreatePasswordResetToken
    \/ CreateActivationToken
    \/ \E w \in Workers : worker(w)
    \/ \E w \in Workers, outcome \in MailerOutcomes : processTaskNoRetry(w, outcome)
    \/ \E w \in Workers : scheduleRetryCall(w)
    \/ \E w \in Workers : scheduleRetryReturn(w)
    \/ pollerLock
    \/ pollerUnlock

LockSpec == LockInit /\ [][LockNext]_vars

---------------------------------------------------------------------------
(* Properties of the scheduler *)

InSeq(seq, tid) == \E i \in DOMAIN seq : seq[i].tid = tid

\* The task is on the dead list of the Scheduler that was started.
OnDeadList(tid) == InSeq(DeadQueue, tid)

\* Nothing more will happen to the task: the process has ended, or the task
\* is in no channel, worker or delayed queue.
Settled(tid) ==
    \/ crashed
    \/ /\ ~InSeq(TaskChannel, tid)
       /\ ~InSeq(DelayedQueue, tid)
       /\ \A w \in Workers : cur[w].tid # tid

\* C1: the mailer is invoked for a task at most max_retries + 1 times.
C1_RetryCap == \A s \in sends : attempts[s.task.tid] <= s.task.MaxRetries + 1

\* C1 witness: a task with max_retries = 1 has been attempted once and the
\* attempt failed with a retriable error.
C1_Witness ==
    \E s \in sends :
        /\ s.outcome = "retriable"
        /\ attempts[s.task.tid] = 1
        /\ s.task.MaxRetries = 1

\* C2 (as claimed): a task with max_retries = 3 whose every attempt failed
\* with a retriable error has, once nothing more happens to it, been
\* attempted four times and is on the dead list.
C2_Claim ==
    \A s \in sends :
        ( /\ s.task.MaxRetries = 3
          /\ \A u \in sends : u.task.tid = s.task.tid => u.outcome = "retriable"
          /\ Settled(s.task.tid) )
        => /\ attempts[s.task.tid] = 4
           /\ OnDeadList(s.task.tid)

\* C3 (as claimed): after an attempt with retry counter k - 1 failed with a
\* retriable error, the task has been placed in the delayed queue with
\* retries = k and execute_at = created_at + backoff(k).
C3_Claim ==
    \A s \in sends :
        (s.outcome = "retriable" /\ s.task.Retries < s.task.MaxRetries)
        => \E p \in pushed :
               /\ p.tid = s.task.tid
               /\ p.Retries = s.task.Retries + 1
               /\ p.ExecuteAt = p.CreatedAt + 2 * (2 ^ (p.Retries - 1))

\* C4 (as claimed): a task whose attempt failed with retriable = false is on
\* the dead list of the Scheduler, is not in the delayed queue and was
\* attempted once.
C4_Claim ==
    \A s \in sends :
        s.outcome = "permanent"
        => /\ OnDeadList(s.task.tid)
           /\ ~InSeq(DelayedQueue, s.task.tid)
           /\ s.task.Retries = 0 => attempts[s.task.tid] = 1

\* The task d was put on a dead list for a reason the contract allows: an
\* attempt of it was classified non-retriable, or its budget is used up and
\* an attempt of it failed.
DeadForCause(d) ==
    \/ \E s \in sends : s.task.tid = d.tid /\ s.outcome = "permanent"
    \/ /\ d.Retries = d.MaxRetries
       /\ \E s \in sends : s.task.tid = d.tid /\ s.outcome = "retriable"

\* C5: every task on a dead list (the Scheduler's, or the copy processTask
\* appended to) was classified non-retriable or has exhausted its budget.
C5_DeadListFinality ==
    /\ \A i \in DOMAIN DeadQueue : DeadForCause(DeadQueue[i])
    /\ \A w \in Workers : \A i \in DOMAIN deadCopy[w] : DeadForCause(deadCopy[w][i])

\* C5 witness: processTask has appended a task to its dead list.
C5_Witness == \E w \in Workers : Len(deadCopy[w]) > 0

\* The lowest ExecuteAt in a non-empty queue.
MinExecuteAt(pq) ==
    CHOOSE m \in {pq[i].ExecuteAt : i \in DOMAIN pq} :
        \A i \in DOMAIN pq : m <= pq[i].ExecuteAt

\* C6 (as claimed): Pop returns a task with the lowest execute_at of the
\* queue, and Peek returns such a task and leaves the queue as it was.
C6_Claim ==
    /\ Len(lastPop.on) > 0 => lastPop.val.val.ExecuteAt = MinExecuteAt(lastPop.on)
    /\ Len(lastPeek.on) > 0 => /\ lastPeek.val.val.ExecuteAt = MinExecuteAt(lastPeek.on)
                               /\ lastPeek.left = lastPeek.on

\* The number of copies of task t in the channel ch.
InChannel(ch, t) == Cardinality({i \in DOMAIN ch : ch[i] = t})

---------------------------------------------------------------------------
(* Properties of the rate limiters *)

\* The number of the admissions logged in times that fall in the window of
\* window_ms milliseconds ending at t.
AdmitsInWindow(times, t) ==
    Cardinality({i \in DOMAIN times : t - WindowMs < times[i] /\ times[i] <= t})

ScriptAdmitTimes(k) == [i \in DOMAIN admits[k] |-> admits[k][i].at]

\* C8: for every key, the calls admitted within any one window of
\* window_ms are at most limit, by the script and by RateLimiter.Allow.
C8_AdmissionCount ==
    \A k \in RKeys : \A t \in 0..MaxNowMs :
        /\ AdmitsInWindow(ScriptAdmitTimes(k), t) <= Limit(k)
        /\ AdmitsInWindow(memAdmits[k], t) <= Limit(k)

\* C8 witness: a key has had limit admissions and its last call was denied.
C8_Witness ==
    \E k \in RKeys :
        /\ lastCall[k].at >= 0
        /\ lastCall[k].ret[1] = 0
        /\ ~lastCall[k].mem
        /\ Len(admits[k]) > Limit(k)

\* The time of the oldest admission before call c of key k that is still
\* within the window at the time of c.
OldestInWindow(k, c) ==
    LET live == {admits[k][i].at : i \in {j \in 1..c.n : admits[k][j].at > c.at - WindowMs}}
    IN  CHOOSE a \in live : \A b \in live : a <= b

\* C9: a denial at time now carries a hint r with 0 <= r <= window_ms that
\* equals window_ms minus the age of the oldest entry in the window, and
\* no call is admitted after a denial before its now + r.
C9_RetryAfter ==
    \A k \in RKeys :
        /\ (lastCall[k].at >= 0 /\ lastCall[k].ret[1] = 0)
           => /\ 0 <= lastCall[k].ret[2]
              /\ lastCall[k].ret[2] <= WindowMs
              /\ lastCall[k].ret[2]
                   = WindowMs - (lastCall[k].at - OldestInWindow(k, lastCall[k]))
        /\ \A i \in DOMAIN admits[k] : admits[k][i].at >= admits[k][i].bar

\* C9 witness: a call was admitted after a denial, and the last call was
\* denied with a hint shorter than the window.
C9_Witness ==
    \E k \in RKeys :
        /\ lastCall[k].at >= 0
        /\ lastCall[k].ret[1] = 0
        /\ lastCall[k].ret[2] > 0
        /\ lastCall[k].ret[2] < WindowMs
        /\ \E i \in DOMAIN admits[k] : admits[k][i].bar > 0

\* C10: after a call evaluated at now_ms, every member left in the key's set
\* (and every timestamp RateLimiter keeps) is later than now_ms - window_ms.
C10_WindowInvariant ==
    \A k \in RKeys :
        lastCall[k].at >= 0
        => /\ \A m \in zset[k] : m.score > lastCall[k].at - WindowMs
           /\ \A i \in DOMAIN requests[k] : requests[k][i] > lastCall[k].at - WindowMs

\* C10 witness: a call has evicted a member and left others in the set.
C10_Witness ==
    \E k \in RKeys :
        /\ lastCall[k].at >= 0
        /\ lastCall[k].evicted > 0
        /\ zset[k] # {}
        /\ lastCall[k].at = rnow

\* The admissions of key k the script made at millisecond t.
AdmitsAt(k, t) == {i \in DOMAIN admits[k] : admits[k][i].at = t}

\* C11 (as claimed): no two calls of a key evaluated at the same millisecond
\* are both admitted.
C11_Claim ==
    \A k \in RKeys : \A i, j \in DOMAIN admits[k] :
        i # j => admits[k][i].at # admits[k][j].at

\* C11 (amended): the calls of a key admitted at one millisecond are at most
\* limit, and each of those of the current millisecond has a member of its
\* own in the set.
C11_SameMillisecond ==
    \A k \in RKeys :
        /\ \A t \in 0..MaxNowMs : Cardinality(AdmitsAt(k, t)) <= Limit(k)
        /\ Cardinality({m \in zset[k] : m.score = rnow}) = Cardinality(AdmitsAt(k, rnow))

\* C11 witness: two calls of a key were admitted at the same millisecond.
C11_Witness ==
    \E k \in RKeys : \E t \in 0..MaxNowMs :
        /\ Cardinality(AdmitsAt(k, t)) = 2
        /\ t = rnow
        /\ lastCall[k].at = t

---------------------------------------------------------------------------
(* Token resolution, properties *)

\* The last step resolved a bearer string.
Resolving == lastResolve.via # "none"

\* C12: resolving a bearer string whose length is not 26 bytes answers
\* invalid-token and makes no cache lookup, no database query and no cache
\* write.
C12_LengthCheck ==
    (Resolving /\ lastResolve.token.len # TokenLen) =>
        /\ lastResolve.kind = "ErrInvalidToken"
        /\ lastResolve.get = "none"
        /\ lastResolve.db = "none"
        /\ ~lastResolve.set

\* C12 witness: a string one byte too long was refused while the cache held
\* an entry and the table a row.
C12_Witness ==
    /\ Resolving
    /\ lastResolve.token.len = TokenLen + 1
    /\ lastResolve.kind = "ErrInvalidToken"
    /\ tokens # {}
    /\ \E k \in CacheKeys : cache[k].has

\* The pair the users table holds for the row the bearer string matches.
DbUser(token) == UsersGetForToken(tokens, token, ScopeAuthentication, tnow, FALSE).user

\* C13 (as claimed): a resolution that finds a valid token absent from the
\* cache queries the database, returns the database's pair and writes the
\* cache entry; a resolution that finds the entry returns its pair without a
\* database query.
C13_Claim ==
    /\ (Resolving /\ lastResolve.valid /\ lastResolve.get = "miss") =>
           /\ lastResolve.kind = "user"
           /\ lastResolve.db = "row"
           /\ lastResolve.ID = DbUser(lastResolve.token).ID
           /\ lastResolve.Activated = DbUser(lastResolve.token).Activated
           /\ lastResolve.wrote
           /\ cache[tokenKey(lastResolve.token)].has
    /\ (Resolving /\ lastResolve.get = "hit") =>
           /\ lastResolve.kind = "user"
           /\ lastResolve.db = "none"

\* C14: when the cache lookup of a well-formed bearer string fails with an
\* error, the resolution queries the database: it returns the database's pair
\* when the token is valid there and invalid-token when it is absent, and it
\* fails only when the database query fails.
C14_CacheError ==
    (Resolving /\ lastResolve.get = "error") =>
        /\ lastResolve.db # "none"
        /\ lastResolve.db = "row" =>
               /\ lastResolve.valid
               /\ lastResolve.kind = "user"
               /\ lastResolve.ID = DbUser(lastResolve.token).ID
               /\ lastResolve.Activated = DbUser(lastResolve.token).Activated
        /\ lastResolve.db = "absent" =>
               /\ ~lastResolve.valid
               /\ lastResolve.kind = "ErrInvalidToken"
        /\ lastResolve.db = "error" => lastResolve.kind = "error"

\* C14 witness: GetUserForToken returned the user of a valid token from the
\* database after a cache error.
C14_Witness ==
    /\ Resolving
    /\ lastResolve.via = "service"
    /\ lastResolve.get = "error"
    /\ lastResolve.db = "row"
    /\ lastResolve.kind = "user"

\* C15 (as claimed): after invalidate(T), a resolution of T whose database
\* query is answered returns invalid-token.
C15_Claim ==
    (Resolving /\ lastResolve.invalidated /\ lastResolve.db \in {"row", "absent"}) =>
        /\ lastResolve.db = "absent"
        /\ lastResolve.kind = "ErrInvalidToken"

\* C16: every token cache entry belongs to a plaintext whose row an INSERT
\* committed earlier, and a login whose insert failed has written no entry.
C16_CacheAfterInsert ==
    /\ \A k \in CacheKeys : cache[k].has => \E p \in committed : k = tokenKey(p)
    /\ (lastNew.called /\ lastNew.err # "nil") =>
           /\ lastNew.token.Plaintext \notin committed
           /\ ~cache[tokenKey(lastNew.token.Plaintext)].has

\* C16 witness: the cache holds the entry a login wrote for a token whose
\* committed row has been deleted since.
C16_Witness ==
    \E p \in committed :
        /\ cache[tokenKey(p)].has
        /\ p \notin PlaintextsOf(tokens)

RowOf(token) ==
    [hash |-> token.Hash, user_id |-> token.UserID, expiry |-> token.Expiry,
     scope |-> token.Scope]

\* C18: a tokenModel.New call that succeeds adds exactly one row to the
\* table, the row of the token it returns, whose hash is SHA-256 of the
\* plaintext; no row holds a plaintext; a call that fails adds no row.
C18_StoredRow ==
    [][lastNew'.called =>
          IF lastNew'.err = "nil"
          THEN /\ RowOf(lastNew'.token) \notin tokens
               /\ tokens' = tokens \cup {RowOf(lastNew'.token)}
               /\ lastNew'.token.Hash = Sha256(lastNew'.token.Plaintext)
               /\ lastNew'.token.Expiry > tnow
               /\ \A r \in tokens' : r.hash \notin BearerTokens
          ELSE tokens' = tokens]_vars

\* C18 witness: tokenModel.New has stored the row of an activation token.
C18_Witness ==
    /\ lastNew.called
    /\ lastNew.err = "nil"
    /\ lastNew.token.Scope = ScopeActivation
    /\ RowOf(lastNew.token) \in tokens

---------------------------------------------------------------------------
(* Ingress channel, properties *)

\* The goroutine that submitted task i is parked in Submit.
Parked(i) == \E j \in 1..Len(blocked) : blocked[j].tid = i

\* C19 (as claimed): a submitter that finds the ingress channel full is
\* eventually unblocked.
C19_Claim == \A i \in (ChanCap + 1)..MaxSubmits : Parked(i) ~> ~Parked(i)

---------------------------------------------------------------------------
(* Scheduler, panics *)

\* A worker has panicked while handling a task: a send failed retriably and
\* the Push of scheduleRetry panicked.
PanicRaised ==
    \E s \in sends :
        /\ classify(s.outcome) = "retry"
        /\ scheduleRetry(DelayedQueue, TaskChannel, s.task).panic

\* The worker goroutines and the poller goroutine that are running.
LiveWorkers == IF started /\ ~crashed THEN Workers ELSE {}
PollerRunning == started /\ ~crashed

\* C20 (as claimed): after a panic raised while a task was handled, the
\* workers are as many as before and the delay poller is still running.
C20_Claim ==
    PanicRaised =>
        /\ Cardinality(LiveWorkers) = NumWorkers
        /\ PollerRunning

---------------------------------------------------------------------------
(* Scheduler, the tasks processTask is handed *)

\* C21: the mailer is invoked only for tasks whose payload has the type
\* their kind requires; a task with another payload is discarded and enters
\* neither the delayed queue nor a dead list.
C21_Claim ==
    /\ \A s \in sends : s.task.Data = PayloadOf(s.task.Type)
    /\ \A i \in DOMAIN DelayedQueue :
           DelayedQueue[i].Data = PayloadOf(DelayedQueue[i].Type)
    /\ \A i \in DOMAIN DeadQueue : DeadQueue[i].Data = PayloadOf(DeadQueue[i].Type)
    /\ \A w \in Workers : \A i \in DOMAIN deadCopy[w] :
           deadCopy[w][i].Data = PayloadOf(deadCopy[w][i].Type)

\* C26: the mailer is invoked only for tasks received with retries <
\* max_retries, and the step that processes a task received with retries >=
\* max_retries drops it: no mailer call, no dead-list entry, no
\* delayed-queue entry.
C26_SendCap ==
    /\ [](\A s \in sends : s.task.Retries < s.task.MaxRetries)
    /\ [][ \A w \in Workers :
              (cur[w] # NoTask /\ cur'[w] = NoTask /\ cur[w].Retries >= cur[w].MaxRetries)
              => /\ cur[w] \in dropped'
                 /\ sends' = sends
                 /\ attempts' = attempts
                 /\ DelayedQueue' = DelayedQueue
                 /\ DeadQueue' = DeadQueue
                 /\ deadCopy'[w] = DeadQueue ]_vars

\* C26 witness: a task of a kind processTask knows, submitted with
\* max_retries = 0, has been received and dropped.
C26_Witness ==
    \E t \in dropped :
        /\ t.Type \in {SendActivationEmail, SendPasswordResetEmail}
        /\ t.Retries >= t.MaxRetries
        /\ attempts[t.tid] = 0

\* The task is on a dead list: the Scheduler's, or the copy a processTask
\* call appended to.
OnAnyDeadList(tid) == OnDeadList(tid) \/ \E w \in Workers : InSeq(deadCopy[w], tid)

\* C27: a task whose send returned an error that is not a MailerError is
\* treated like a success: it is in no delayed queue and on no dead list, it
\* was not pushed, it is back in no channel or worker, and it was attempted
\* that one time only.
C27_OtherError ==
    \A s \in sends :
        s.outcome = "other"
        => /\ ~InSeq(DelayedQueue, s.task.tid)
           /\ s.task.tid \notin {t.tid : t \in pushed}
           /\ ~OnAnyDeadList(s.task.tid)
           /\ ~InSeq(TaskChannel, s.task.tid)
           /\ \A w \in Workers : cur[w].tid # s.task.tid
           /\ attempts[s.task.tid] = 1

\* C27 witness: a send has returned an error that is not a MailerError, and
\* the clock has moved on since.
C27_Witness == \E s \in sends : s.outcome = "other" /\ s.at < now

\* The task is held nowhere in the scheduler any more: in no channel, worker
\* or delayed queue. No step brings such a task back.
Gone(tid) ==
    /\ tid <= nSubmitted
    /\ ~InSeq(TaskChannel, tid)
    /\ ~InSeq(DelayedQueue, tid)
    /\ \A w \in Workers : cur[w].tid # tid

\* Done: a send of the task came back without a MailerError.
Done(tid) == \E s \in sends : s.task.tid = tid /\ s.outcome \in {"nil", "other"}

\* C24: every submitted task reaches a terminal state, done after a success
\* or on the dead list. A task ends its run through the scheduler in one of
\* the two: once it is held nowhere, it is done or on the dead list.
C24_Claim == \A tid \in TaskIds : Gone(tid) => (Done(tid) \/ OnDeadList(tid))

\* The tasks the scheduler owns.
Owned ==
    {TaskChannel[i] : i \in DOMAIN TaskChannel}
    \cup {cur[w] : w \in {v \in Workers : cur[v] # NoTask}}
    \cup {DelayedQueue[i] : i \in DOMAIN DelayedQueue}
    \cup {DeadQueue[i] : i \in DOMAIN DeadQueue}
    \cup UNION {{deadCopy[w][i] : i \in DOMAIN deadCopy[w]} : w \in Workers}

\* C25: every task the scheduler owns has retries <= max_retries and
\* execute_at >= created_at, the tasks as the handlers create them included.
C25_Claim == \A t \in Owned : t.Retries <= t.MaxRetries /\ t.ExecuteAt >= t.CreatedAt

\* C22: after a pass of the delay poller evaluated at time now, no task with
\* execute_at <= now is left in the delayed queue.
C22_Claim ==
    lastPoll.at > 0
    => \A i \in DOMAIN lastPoll.left : lastPoll.left[i].ExecuteAt > lastPoll.at

---------------------------------------------------------------------------
(* Scheduler, the mutex *)

\* The goroutines that are reading or modifying the delayed queue: the
\* workers inside Push, and the poller inside its loop.
InQueue == {WorkerG(w) : w \in inPush} \cup (IF mu = Poller THEN {Poller} ELSE {})

\* C23: every goroutine that accesses the delayed queue holds the mutex, so
\* no two goroutines access the queue at the same time.
C23_Claim ==
    /\ \A g \in InQueue : mu = g
    /\ Cardinality(InQueue) <= 1

---------------------------------------------------------------------------
(* Rate limiters, the hint and the two implementations *)

\* C29: the retry-after hint is tight. When the last call for a key was a
\* denial at time now with hint r > 0, the next call for the key is denied
\* when it comes before now + r and admitted when it comes at now + r.
C29_TightHint ==
    [][ \A k \in RKeys :
          (/\ lastCall[k].at >= 0
           /\ lastCall[k].ret[1] = 0
           /\ lastCall[k].ret[2] > 0
           /\ Allow(k))
          => /\ rnow < lastCall[k].at + lastCall[k].ret[2] => lastCall'[k].ret[1] = 0
             /\ rnow = lastCall[k].at + lastCall[k].ret[2] => lastCall'[k].ret[1] = 1 ]_vars

\* C29 witness: a call was admitted at exactly the now + r of the denial
\* before it.
C29_Witness ==
    \E k \in RKeys : \E i \in DOMAIN admits[k] :
        /\ admits[k][i].bar > 0
        /\ admits[k][i].at = admits[k][i].bar

\* How many of the timestamps the script (the scores of z) and
\* RateLimiter.Allow (the sequence ts) keep are equal to t.
ScoreCount(z, t) == Cardinality({m \in z : m.score = t})
StampCount(ts, t) == Cardinality({i \in DOMAIN ts : ts[i] = t})

\* C30: the script and RateLimiter.Allow, put to the same calls, admit and
\* deny the same calls, and after each call keep the same multiset of
\* timestamps for the key (at any time, the same multiset of in-window
\* timestamps).
C30_Equivalence ==
    \A k \in RKeys :
        /\ lastCall[k].at >= 0 => ((lastCall[k].ret[1] = 1) <=> lastCall[k].mem)
        /\ ScriptAdmitTimes(k) = memAdmits[k]
        /\ lastCall[k].at = rnow
           => \A t \in 0..MaxNowMs : ScoreCount(zset[k], t) = StampCount(requests[k], t)
        /\ \A t \in 0..MaxNowMs :
              t > rnow - WindowMs => ScoreCount(zset[k], t) = StampCount(requests[k], t)

\* C30 witness: a call has just been admitted by both limiters after it
\* evicted an old timestamp, and the key holds two timestamps.
C30_Witness ==
    \E k \in RKeys :
        /\ lastCall[k].at = rnow
        /\ lastCall[k].evicted > 0
        /\ lastCall[k].ret[1] = 1
        /\ lastCall[k].mem
        /\ Cardinality(zset[k]) = 2

====
